---- MODULE Spec2Model ----
(***************************************************************************)
(* Feature-selection layer of LightAutoML                                  *)
(* (lightautoml/pipelines/selection/base.py): SelectionPipeline and its    *)
(* subclasses EmptySelector, PredefinedSelector and ComposedSelector.      *)
(*                                                                         *)
(* A Python attribute that may be None is an option: None is <<>> and a    *)
(* value x is <<x>>.  A list of feature names is a sequence of strings.    *)
(* A call that raises is a result record with ok = FALSE; the heap it      *)
(* carries holds the assignments made before the raise.                    *)
(***************************************************************************)
EXTENDS Integers, Sequences, FiniteSets, TLC

VARIABLES sel, last

vars == <<sel, last>>

----------------------------------------------------------------------------
(* Bounds of the explored universe.                                        *)

\* longest feature list of a train/valid iterator or of a dataset
MaxLen == 2
\* longest selector sequence given to a ComposedSelector
MaxChain == 2
\* longest feature list of a dataset given to a selector that stands alone
MaxData == 3
\* most entries of a table of raw importances
MaxRaw == 3

\* feature names of the datasets
Names == {"a", "b"}

----------------------------------------------------------------------------
(* Python values.                                                          *)

None == <<>>
Some(x) == <<x>>
IsNone(o) == o = <<>>
Get(o) == o[1]

Range(s) == {s[i] : i \in DOMAIN s}

\* lists of distinct names, at most n long
RECURSIVE Lists(_, _)
Lists(S, n) ==
    IF n = 0 THEN {<<>>}
    ELSE LET shorter == Lists(S, n - 1)
         IN  shorter \cup UNION {{Append(l, x) : x \in S \ Range(l)} : l \in shorter}

\* the orders in which iterating a Python set can yield its elements
Orders(S) == {s \in Lists(S, Cardinality(S)) : Range(s) = S}

----------------------------------------------------------------------------
(* Collaborators: the dataset and the train/valid iterator.                *)

\* a dataset: its ordered feature names and the names whose role has
\* force_input = True
Datasets(S, n) ==
    {d \in [features : Lists(S, n), force : SUBSET S] : d.force \subseteq Range(d.features)}

\* dataset[:, cols]: the projection on the columns cols, in the order of cols;
\* a column the dataset does not have is an error
getitem(dataset, cols) ==
    IF Range(cols) \subseteq Range(dataset.features)
    THEN [ok |-> TRUE,
          data |-> [features |-> cols, force |-> dataset.force \cap Range(cols)]]
    ELSE [ok |-> FALSE, data |-> dataset]

\* a train/valid iterator over a train dataset
TrainValidIterator(train) == [train |-> train, holdout |-> FALSE]

\* train_valid.features
features(train_valid) == train_valid.train.features

convert_to_holdout_iterator(train_valid) == [train_valid EXCEPT !.holdout = TRUE]

\* the name a features pipeline gives to a feature it derives from x
derived(prefix, x) == prefix \o "__" \o x

\* the prefixes of the transformers of the features pipelines
Prefixes == {"p", "q"}

\* train_valid.apply_feature_pipeline(features_pipeline): every feature is
\* replaced by the feature the pipeline derives from it
apply_feature_pipeline(train_valid, features_pipeline) ==
    [train_valid EXCEPT
        !.train = [features |-> [i \in DOMAIN features(train_valid) |->
                                     derived(features_pipeline, features(train_valid)[i])],
                   force |-> {derived(features_pipeline, x) : x \in train_valid.train.force}]]

\* map_pipeline_names(input_names, output_names): for every output name the
\* input name it comes from; None where no input name can be inferred
map_pipeline_names(input_names, output_names) ==
    [i \in DOMAIN output_names |->
        LET from == {x \in Range(input_names) :
                        \/ output_names[i] = x
                        \/ \E prefix \in Prefixes : output_names[i] = derived(prefix, x)}
        IN  IF from = {} THEN None ELSE Some(CHOOSE x \in from : TRUE)]

\* tune_and_fit_predict(ml_algo, tuner, train_valid): the model fitted on the
\* iterator's features
tune_and_fit_predict(ml_algo, train_valid) ==
    [is_fitted |-> TRUE, features |-> features(train_valid), tuned |-> ml_algo.tuned + 1]

\* imp_estimator.fit(train_valid, ml_algo, preds) of a concrete estimator: it
\* fills the raw importance table, one score per feature of the iterator
imp_estimator_fit(imp_estimator, train_valid) ==
    [raw_importances |-> Some([i \in DOMAIN features(train_valid) |->
                                  <<features(train_valid)[i], 1>>])]

----------------------------------------------------------------------------
(* SelectionPipeline.                                                      *)

\* SelectionPipeline.__init__
SelectionPipeline(kind, features_pipeline, ml_algo, imp_estimator, fit_on_holdout) ==
    [kind |-> kind,
     features_pipeline |-> features_pipeline,
     _fit_on_holdout |-> fit_on_holdout,
     ml_algo |-> ml_algo,
     imp_estimator |-> imp_estimator,
     _selected_features |-> None,
     _in_features |-> None,
     mapped_importances |-> None,
     columns_to_select |-> {},
     selectors |-> <<>>]

\* EmptySelector.__init__
EmptySelector == SelectionPipeline("EmptySelector", None, None, None, FALSE)

\* PredefinedSelector.__init__
PredefinedSelector(columns_to_select) ==
    [SelectionPipeline("PredefinedSelector", None, None, None, FALSE)
        EXCEPT !.columns_to_select = columns_to_select]

\* ComposedSelector.__init__
ComposedSelector(selectors) ==
    [SelectionPipeline("ComposedSelector", None, None, None, FALSE)
        EXCEPT !.selectors = selectors]

\* property is_fitted
is_fitted(self) == ~IsNone(self._selected_features)

\* property selected_features: the assertion, then the list
selected_features(self) ==
    IF ~IsNone(self._selected_features)
    THEN [ok |-> TRUE, ret |-> self._selected_features]
    ELSE [ok |-> FALSE, ret |-> None]

\* property in_features: the assertion, then the list
in_features(self) ==
    IF ~IsNone(self._in_features)
    THEN [ok |-> TRUE, ret |-> self._in_features]
    ELSE [ok |-> FALSE, ret |-> None]

\* not_in with the test turned round: [x for x in xs if x in included]
RECURSIVE is_in(_, _)
is_in(xs, included) ==
    IF xs = <<>> THEN <<>>
    ELSE (IF Head(xs) \in included THEN <<Head(xs)>> ELSE <<>>)
         \o is_in(Tail(xs), included)

\* [x for x in xs if x not in included]
RECURSIVE not_in(_, _)
not_in(xs, included) ==
    IF xs = <<>> THEN <<>>
    ELSE (IF Head(xs) \notin included THEN <<Head(xs)>> ELSE <<>>)
         \o not_in(Tail(xs), included)

\* property dropped_features; set(None) and iterating None raise
dropped_features(self) ==
    IF IsNone(self._selected_features) \/ IsNone(self._in_features)
    THEN [ok |-> FALSE, ret |-> None]
    ELSE LET included == Range(Get(self._selected_features))
         IN  [ok |-> TRUE, ret |-> Some(not_in(Get(self._in_features), included))]

\* list(a_set) for the iteration order ord of the names
list(a_set, ord) == SelectSeq(ord, LAMBDA x : x \in a_set)

\* SelectionPipeline.perform_selection: abstract, raises NotImplementedError
SelectionPipeline_perform_selection(h, s, train_valid) == [heap |-> h, ok |-> FALSE]

\* EmptySelector.perform_selection losing the first feature
EmptySelector_perform_selection_tail(h, s, train_valid) ==
    [heap |-> [h EXCEPT ![s]._selected_features =
                            Some(IF features(train_valid) = <<>> THEN <<>>
                                 ELSE Tail(features(train_valid)))],
     ok |-> TRUE]

\* EmptySelector.perform_selection
EmptySelector_perform_selection(h, s, train_valid) ==
    [heap |-> [h EXCEPT ![s]._selected_features = Some(features(train_valid))],
     ok |-> TRUE]

\* PredefinedSelector.perform_selection without its assertion
PredefinedSelector_perform_selection_unchecked(h, s, train_valid, ord) ==
    [heap |-> [h EXCEPT ![s]._selected_features = Some(list(h[s].columns_to_select, ord))],
     ok |-> TRUE]

\* PredefinedSelector.perform_selection asserting that some requested column,
\* instead of every one, is a feature of the iterator
PredefinedSelector_perform_selection_any(h, s, train_valid, ord) ==
    LET columns_to_select == h[s].columns_to_select
    IN  IF columns_to_select = {}
           \/ columns_to_select \cap Range(features(train_valid)) # {}
        THEN [heap |-> [h EXCEPT ![s]._selected_features =
                                     Some(list(columns_to_select, ord))],
              ok |-> TRUE]
        ELSE [heap |-> h, ok |-> FALSE]

\* PredefinedSelector.perform_selection
PredefinedSelector_perform_selection(h, s, train_valid, ord) ==
    LET columns_to_select == h[s].columns_to_select
    IN  IF Cardinality(columns_to_select)
              = Cardinality(columns_to_select \cap Range(features(train_valid)))
        THEN [heap |-> [h EXCEPT ![s]._selected_features =
                                     Some(list(columns_to_select, ord))],
              ok |-> TRUE]
        ELSE [heap |-> h, ok |-> FALSE]

\* ComposedSelector.perform_selection
ComposedSelector_perform_selection(h, s, train_valid) ==
    LET selectors == h[s].selectors
        r == selected_features(h[selectors[Len(selectors)]])
    IN  IF selectors = <<>> \/ ~r.ok
        THEN [heap |-> h, ok |-> FALSE]
        ELSE [heap |-> [h EXCEPT ![s]._selected_features = r.ret], ok |-> TRUE]

\* perform_selection of a user-defined selector: it keeps the features of the
\* iterator that are in keep, in the iterator's order
UserSelector_perform_selection(h, s, train_valid, keep) ==
    [heap |-> [h EXCEPT ![s]._selected_features =
                            Some(SelectSeq(features(train_valid),
                                           LAMBDA x : x \in Range(keep)))],
     ok |-> TRUE]

\* self.perform_selection(train_valid): the method of the object's class
perform_selection(h, s, train_valid, ord) ==
    CASE h[s].kind = "EmptySelector" -> EmptySelector_perform_selection(h, s, train_valid)
      [] h[s].kind = "UserSelector" -> UserSelector_perform_selection(h, s, train_valid, ord)
      [] h[s].kind = "PredefinedSelector" ->
             PredefinedSelector_perform_selection(h, s, train_valid, ord)
      [] h[s].kind = "ComposedSelector" ->
             ComposedSelector_perform_selection(h, s, train_valid)
      [] OTHER -> SelectionPipeline_perform_selection(h, s, train_valid)

\* a call made while a fit runs: the operation and the selector that makes it
\* (for apply_selector, the selector it is given)
Step(op, s) == <<op, s>>

\* self.ml_algo.is_fitted read as False whatever the model
ml_algo_is_fitted_never(ml_algo) == FALSE

\* self.ml_algo.is_fitted
ml_algo_is_fitted(ml_algo) == ml_algo.is_fitted

\* list(self.ml_algo.features) == list(train_valid.features) comparing the
\* names without their order
ml_algo_features_match_unordered(ml_algo, train_valid) ==
    Range(ml_algo.features) = Range(features(train_valid))

\* list(self.ml_algo.features) == list(train_valid.features)
ml_algo_features_match(ml_algo, train_valid) ==
    ml_algo.features = features(train_valid)

\* the outcome of a fit: the outcome of its last call and the calls it made
logged(outcome, log) == [heap |-> outcome.heap, ok |-> outcome.ok, log |-> log]

\* SelectionPipeline.fit with line 152 moved below line 154: _in_features is
\* taken from the iterator the features pipeline returns
fit_steps_in_features_late(h, s, train_valid, ord) ==
    LET self == h[s]
        tv1 == IF self._fit_on_holdout
               THEN convert_to_holdout_iterator(train_valid) ELSE train_valid
        tv2 == IF ~IsNone(self.features_pipeline)
               THEN apply_feature_pipeline(tv1, Get(self.features_pipeline)) ELSE tv1
        h1 == [h EXCEPT ![s]._in_features = Some(features(tv2))]
        fitted_algo == ~IsNone(self.ml_algo) /\ ml_algo_is_fitted(Get(self.ml_algo))
        h2 == IF ~IsNone(self.ml_algo) /\ ~fitted_algo
              THEN [h1 EXCEPT ![s].ml_algo =
                                  Some(tune_and_fit_predict(Get(self.ml_algo), tv2))]
              ELSE h1
        h3 == IF ~IsNone(self.imp_estimator)
              THEN [h2 EXCEPT ![s].imp_estimator =
                                  Some(imp_estimator_fit(Get(self.imp_estimator), tv2))]
              ELSE h2
        steps == (IF self._fit_on_holdout
                  THEN <<Step("convert_to_holdout_iterator", s)>> ELSE <<>>)
                 \o (IF ~IsNone(self.features_pipeline)
                     THEN <<Step("apply_feature_pipeline", s)>> ELSE <<>>)
        fitting == (IF ~IsNone(self.ml_algo) /\ ~fitted_algo
                    THEN <<Step("tune_and_fit_predict", s)>> ELSE <<>>)
                   \o (IF ~IsNone(self.imp_estimator)
                       THEN <<Step("imp_estimator.fit", s)>> ELSE <<>>)
                   \o <<Step("perform_selection", s)>>
    IN  IF fitted_algo /\ ~ml_algo_features_match(Get(self.ml_algo), tv2)
        THEN [heap |-> h1, ok |-> FALSE, log |-> steps]
        ELSE logged(perform_selection(h3, s, tv2, ord), steps \o fitting)

\* SelectionPipeline.fit, the steps taken when the selector is not fitted; log
\* lists the calls it makes, in their order
fit_steps(h, s, train_valid, ord) ==
    LET self == h[s]
        tv1 == IF self._fit_on_holdout
               THEN convert_to_holdout_iterator(train_valid) ELSE train_valid
        h1 == [h EXCEPT ![s]._in_features = Some(features(tv1))]
        tv2 == IF ~IsNone(self.features_pipeline)
               THEN apply_feature_pipeline(tv1, Get(self.features_pipeline)) ELSE tv1
        fitted_algo == ~IsNone(self.ml_algo) /\ ml_algo_is_fitted(Get(self.ml_algo))
        h2 == IF ~IsNone(self.ml_algo) /\ ~fitted_algo
              THEN [h1 EXCEPT ![s].ml_algo =
                                  Some(tune_and_fit_predict(Get(self.ml_algo), tv2))]
              ELSE h1
        h3 == IF ~IsNone(self.imp_estimator)
              THEN [h2 EXCEPT ![s].imp_estimator =
                                  Some(imp_estimator_fit(Get(self.imp_estimator), tv2))]
              ELSE h2
        steps == (IF self._fit_on_holdout
                  THEN <<Step("convert_to_holdout_iterator", s)>> ELSE <<>>)
                 \o (IF ~IsNone(self.features_pipeline)
                     THEN <<Step("apply_feature_pipeline", s)>> ELSE <<>>)
        fitting == (IF ~IsNone(self.ml_algo) /\ ~fitted_algo
                    THEN <<Step("tune_and_fit_predict", s)>> ELSE <<>>)
                   \o (IF ~IsNone(self.imp_estimator)
                       THEN <<Step("imp_estimator.fit", s)>> ELSE <<>>)
                   \o <<Step("perform_selection", s)>>
    IN  IF fitted_algo /\ ~ml_algo_features_match(Get(self.ml_algo), tv2)
        THEN [heap |-> h1, ok |-> FALSE, log |-> steps]
        ELSE logged(perform_selection(h3, s, tv2, ord), steps \o fitting)

\* SelectionPipeline.fit testing _in_features in place of is_fitted
SelectionPipeline_fit_guard_in_features(h, s, train_valid, ord) ==
    IF ~IsNone(h[s]._in_features) THEN [heap |-> h, ok |-> TRUE, log |-> <<>>]
    ELSE fit_steps(h, s, train_valid, ord)

\* SelectionPipeline.fit without the test of is_fitted
SelectionPipeline_fit_unguarded(h, s, train_valid, ord) == fit_steps(h, s, train_valid, ord)

\* SelectionPipeline.fit
SelectionPipeline_fit(h, s, train_valid, ord) ==
    IF is_fitted(h[s]) THEN [heap |-> h, ok |-> TRUE, log |-> <<>>]
    ELSE fit_steps(h, s, train_valid, ord)

\* the loop of select(): the list it is given, then the dataset's
\* force_input features that are not in it, in the dataset's order
add_forced(selected, dataset) ==
    selected \o SelectSeq(dataset.features,
                          LAMBDA col : col \notin Range(selected) /\ col \in dataset.force)

\* SelectionPipeline.select with selected_features = self.selected_features
\* in place of the copy: the loop appends to the selector's own list
select_alias(h, s, dataset) ==
    LET r == selected_features(h[s])
        h1 == [h EXCEPT ![s]._selected_features = Some(add_forced(Get(r.ret), dataset))]
    IN  IF ~r.ok THEN [heap |-> h, ok |-> FALSE, data |-> dataset, dataset |-> dataset]
        ELSE LET sliced == getitem(dataset, Get(selected_features(h1[s]).ret))
             IN  [heap |-> h1, ok |-> sliced.ok, data |-> sliced.data, dataset |-> dataset]

\* SelectionPipeline.select: the loop works on a copy of the selection, the
\* slice is taken with self.selected_features; data is the dataset returned,
\* dataset is the dataset given, as it is after the call
select(h, s, dataset) ==
    LET r == selected_features(h[s])
        copy == add_forced(Get(r.ret), dataset)
    IN  IF ~r.ok THEN [heap |-> h, ok |-> FALSE, data |-> dataset, dataset |-> dataset]
        ELSE LET sliced == getitem(dataset, Get(selected_features(h[s]).ret))
             IN  [heap |-> h, ok |-> sliced.ok, data |-> sliced.data, dataset |-> dataset]

\* the sum of the scores of the entries of a Series
RECURSIVE sum(_)
sum(series) == IF series = <<>> THEN 0 ELSE Head(series)[2] + sum(Tail(series))

\* series.groupby(level=0).sum().sort_values(): scores non-decreasing
groupby_sum_sorted_ascending(series) ==
    LET keys == {series[i][1] : i \in DOMAIN series}
        total(k) == sum(SelectSeq(series, LAMBDA e : e[1] = k))
    IN  {[i \in DOMAIN o |-> <<o[i], total(o[i])>>] : o \in
            {o \in Orders(keys) : \A i, j \in DOMAIN o : i < j => total(o[i]) <= total(o[j])}}

\* series.groupby(level=0).sum().sort_values(ascending=False): one entry per
\* key with the sum of its scores, scores non-increasing; the order among
\* equal scores is not fixed, so this is the set of the possible results
groupby_sum_sorted(series) ==
    LET keys == {series[i][1] : i \in DOMAIN series}
        total(k) == sum(SelectSeq(series, LAMBDA e : e[1] = k))
    IN  {[i \in DOMAIN o |-> <<o[i], total(o[i])>>] : o \in
            {o \in Orders(keys) : \A i, j \in DOMAIN o : i < j => total(o[i]) >= total(o[j])}}

\* SelectionPipeline.map_raw_feature_importances: the possible values of
\* mapped_importances, or a failure
map_raw_feature_importances(self, raw_importances) ==
    LET r == in_features(self)
        index == [i \in DOMAIN raw_importances |-> raw_importances[i][1]]
        mapped == map_pipeline_names(Get(r.ret), index)
        mapped_importance == [i \in DOMAIN raw_importances |->
                                 <<Get(mapped[i]), raw_importances[i][2]>>]
    IN  IF ~r.ok \/ \E i \in DOMAIN mapped : IsNone(mapped[i])
        THEN [ok |-> FALSE, values |-> {}]
        ELSE [ok |-> TRUE, values |-> groupby_sum_sorted(mapped_importance)]

\* SelectionPipeline.get_features_score
SelectionPipeline_get_features_score(h, s) == [ok |-> TRUE, ret |-> h[s].mapped_importances]

----------------------------------------------------------------------------
(* ComposedSelector.                                                       *)

\* apply_selector once the selector is fitted, r being the outcome of its fit:
\* the train dataset is restricted to the selection
apply_selector_select(r, train_valid, selector) ==
    LET d == select(r.heap, selector, train_valid.train)
        log == <<Step("apply_selector", selector)>> \o r.log
    IN  IF ~r.ok
        THEN [heap |-> r.heap, ok |-> FALSE, train_valid |-> train_valid, log |-> log]
        ELSE [heap |-> d.heap, ok |-> d.ok,
              train_valid |-> [train_valid EXCEPT !.train = d.data], log |-> log]

\* train_valid.apply_selector(selector): fits the selector on the iterator
\* unless it is fitted, then restricts the train dataset to its selection
apply_selector(h, train_valid, selector, ord) ==
    apply_selector_select(IF ~is_fitted(h[selector])
                          THEN SelectionPipeline_fit(h, selector, train_valid, ord)
                          ELSE [heap |-> h, ok |-> TRUE, log |-> <<>>],
                          train_valid, selector)

\* the outcome of a sequence of calls that made the calls of log first
after(log, outcome) == [outcome EXCEPT !.log = log \o outcome.log]

RECURSIVE apply_selectors_reversed(_, _, _, _)

apply_selectors_reversed_next(r, selectors, ord) ==
    IF ~r.ok THEN r
    ELSE after(r.log, apply_selectors_reversed(r.heap, r.train_valid,
                                               SubSeq(selectors, 1, Len(selectors) - 1),
                                               ord))

\* for selector in reversed(self.selectors):
\*     train_valid = train_valid.apply_selector(selector)
apply_selectors_reversed(h, train_valid, selectors, ord) ==
    IF selectors = <<>>
    THEN [heap |-> h, ok |-> TRUE, train_valid |-> train_valid, log |-> <<>>]
    ELSE apply_selectors_reversed_next(
             apply_selector(h, train_valid, selectors[Len(selectors)], ord),
             selectors, ord)

RECURSIVE apply_selectors(_, _, _, _)

\* the loop going on with the next selectors although apply_selector raised
apply_selectors_next_swallow(r, selectors, ord) ==
    after(r.log, apply_selectors(r.heap, r.train_valid, Tail(selectors), ord))

\* the loop over self.selectors after its first apply_selector, whose outcome
\* is r: a raise ends the loop, else the loop goes on with the next selectors
apply_selectors_next(r, selectors, ord) ==
    IF ~r.ok THEN r
    ELSE after(r.log, apply_selectors(r.heap, r.train_valid, Tail(selectors), ord))

\* for selector in self.selectors: train_valid = train_valid.apply_selector(selector)
apply_selectors(h, train_valid, selectors, ord) ==
    IF selectors = <<>>
    THEN [heap |-> h, ok |-> TRUE, train_valid |-> train_valid, log |-> <<>>]
    ELSE apply_selectors_next(apply_selector(h, train_valid, Head(selectors), ord),
                              selectors, ord)

\* ComposedSelector.fit after its loop, whose outcome is r: _in_features is
\* read from the first selector, then perform_selection is called
ComposedSelector_fit_end(r, s, ord) ==
    LET selectors == r.heap[s].selectors
        first == in_features(r.heap[selectors[1]])
    IN  IF ~r.ok \/ selectors = <<>> THEN [heap |-> r.heap, ok |-> FALSE, log |-> r.log]
        ELSE IF ~first.ok THEN [heap |-> r.heap, ok |-> FALSE, log |-> r.log]
        ELSE logged(perform_selection([r.heap EXCEPT ![s]._in_features = first.ret],
                                      s, r.train_valid, ord),
                    r.log \o <<Step("perform_selection", s)>>)

\* ComposedSelector.fit clearing the selector's state before it starts
ComposedSelector_fit_reset(h, s, train_valid, ord) ==
    ComposedSelector_fit_end(
        apply_selectors([h EXCEPT ![s]._selected_features = None, ![s]._in_features = None],
                        train_valid, h[s].selectors, ord),
        s, ord)

\* ComposedSelector.fit returning at once when it has no selectors
ComposedSelector_fit_skip_empty(h, s, train_valid, ord) ==
    IF h[s].selectors = <<>> THEN [heap |-> h, ok |-> TRUE, log |-> <<>>]
    ELSE ComposedSelector_fit_end(apply_selectors(h, train_valid, h[s].selectors, ord),
                                  s, ord)

\* ComposedSelector.fit
ComposedSelector_fit(h, s, train_valid, ord) ==
    ComposedSelector_fit_end(apply_selectors(h, train_valid, h[s].selectors, ord), s, ord)

\* ComposedSelector.get_features_score reading the first selector's scores
ComposedSelector_get_features_score_first(h, s) ==
    LET selectors == h[s].selectors
    IN  IF selectors = <<>> THEN [ok |-> FALSE, ret |-> None]
        ELSE [ok |-> TRUE, ret |-> h[selectors[1]].mapped_importances]

\* ComposedSelector.get_features_score
ComposedSelector_get_features_score(h, s) ==
    LET selectors == h[s].selectors
    IN  IF selectors = <<>> THEN [ok |-> FALSE, ret |-> None]
        ELSE [ok |-> TRUE, ret |-> h[selectors[Len(selectors)]].mapped_importances]

\* selector.get_features_score(): the method of the object's class
get_features_score(h, s) ==
    IF h[s].kind = "ComposedSelector"
    THEN ComposedSelector_get_features_score(h, s)
    ELSE SelectionPipeline_get_features_score(h, s)

\* selector.fit(train_valid): the method of the object's class
fit(h, s, train_valid, ord) ==
    IF h[s].kind = "ComposedSelector"
    THEN ComposedSelector_fit(h, s, train_valid, ord)
    ELSE SelectionPipeline_fit(h, s, train_valid, ord)

----------------------------------------------------------------------------
(* The program: a caller that owns some selectors and calls their          *)
(* operations one at a time, in any order.  While the caller holds the     *)
(* outcome of a call, last records the call: its receiver, its argument,   *)
(* whether it returned (ok) or raised, and what it returned; the caller    *)
(* then goes on (Continue) to its next call.  The returned value is kept   *)
(* by its Python type: ret holds a list of feature names, ret_bool a bool, *)
(* ret_score a table of importances; raw holds the importances given to    *)
(* map_raw_feature_importances; log holds the calls a fit made; arg_after  *)
(* is the dataset given to the call, as it is when the call has returned.  *)

NoData == [features |-> <<>>, force |-> {}]

NoRaw == <<>>

Idle == [op |-> "idle", self |-> 1, arg |-> NoData, raw |-> NoRaw, ok |-> TRUE,
         ret |-> None, ret_bool |-> None, ret_score |-> None, was_fitted |-> FALSE,
         log |-> <<>>, arg_after |-> NoData]

Call(op, s, arg, ok, ret) ==
    [op |-> op, self |-> s, arg |-> arg, raw |-> NoRaw, ok |-> ok,
     ret |-> ret, ret_bool |-> None, ret_score |-> None,
     was_fitted |-> is_fitted(sel[s]), log |-> <<>>, arg_after |-> arg]

\* the selectors 1..n are leaves, selector n + 1 is a ComposedSelector over them
Chain(n) == [i \in 1..n |-> i]

LeafObjects(S) == {EmptySelector} \cup {PredefinedSelector(c) : c \in SUBSET S}

Init ==
    /\ \E n \in 0..MaxChain : \E leaf \in [1..n -> LeafObjects(Names)] :
           sel = [s \in 1..(n + 1) |-> IF s = n + 1 THEN ComposedSelector(Chain(n))
                                       ELSE leaf[s]]
    /\ last = Idle

Fit(s, d, ord) ==
    \E r \in {fit(sel, s, TrainValidIterator(d), ord)} :
        /\ sel' = r.heap
        /\ last' = [Call("fit", s, d, r.ok, None) EXCEPT !.log = r.log]

Select(s, d) ==
    LET r == select(sel, s, d)
    IN  /\ sel' = r.heap
        /\ last' = [Call("select", s, d, r.ok,
                          IF r.ok THEN Some(r.data.features) ELSE None)
                        EXCEPT !.arg_after = r.dataset]

ReadIsFitted(s) ==
    /\ last' = [Call("is_fitted", s, NoData, TRUE, None)
                    EXCEPT !.ret_bool = Some(is_fitted(sel[s]))]
    /\ UNCHANGED sel

ReadSelectedFeatures(s) ==
    LET r == selected_features(sel[s])
    IN  /\ last' = Call("selected_features", s, NoData, r.ok, r.ret)
        /\ UNCHANGED sel

ReadInFeatures(s) ==
    LET r == in_features(sel[s])
    IN  /\ last' = Call("in_features", s, NoData, r.ok, r.ret)
        /\ UNCHANGED sel

ReadDroppedFeatures(s) ==
    LET r == dropped_features(sel[s])
    IN  /\ last' = Call("dropped_features", s, NoData, r.ok, r.ret)
        /\ UNCHANGED sel

MapRawFeatureImportances(s, raw) ==
    LET r == map_raw_feature_importances(sel[s], raw)
    IN  /\ IF r.ok
           THEN \E m \in r.values : sel' = [sel EXCEPT ![s].mapped_importances = Some(m)]
           ELSE UNCHANGED sel
        /\ last' = [Call("map_raw_feature_importances", s, NoData, r.ok, None)
                        EXCEPT !.raw = raw]

GetFeaturesScore(s) ==
    LET r == get_features_score(sel, s)
    IN  /\ last' = [Call("get_features_score", s, NoData, r.ok, None)
                        EXCEPT !.ret_score = r.ret]
        /\ UNCHANGED sel

Continue ==
    /\ last # Idle
    /\ last' = Idle
    /\ UNCHANGED sel

WideNames == {"a", "b", "c", "d"}
AllOrders == Orders(WideNames)

\* the orders list() can give to the column sets a fit of s turns into lists
FitOrders(s) ==
    LET columns == UNION {sel[c].columns_to_select : c \in {s} \cup Range(sel[s].selectors)}
    IN  {list(columns, o) : o \in AllOrders}

\* the inputs of the calls
AllDatasets == Datasets(Names, MaxLen)
AllRaw == {<< <<"a", 3>>, <<derived("p", "a"), 1>> >>}

Calls ==
    \/ last = Idle /\ \E s \in DOMAIN sel : \E d \in AllDatasets :
                          \E ord \in FitOrders(s) : Fit(s, d, ord)
    \/ last = Idle /\ \E s \in DOMAIN sel : \E d \in AllDatasets : Select(s, d)
    \/ last = Idle /\ \E s \in DOMAIN sel : \E raw \in AllRaw : MapRawFeatureImportances(s, raw)
    \/ last = Idle /\ \E s \in DOMAIN sel : GetFeaturesScore(s)
    \/ last = Idle /\ \E s \in DOMAIN sel : ReadIsFitted(s)
    \/ last = Idle /\ \E s \in DOMAIN sel : ReadSelectedFeatures(s)
    \/ last = Idle /\ \E s \in DOMAIN sel : ReadInFeatures(s)
    \/ last = Idle /\ \E s \in DOMAIN sel : ReadDroppedFeatures(s)

Next == Calls \/ Continue

\* a ComposedSelector over a chain of up to MaxChain leaf selectors
Spec == Init /\ [][Next]_vars

----------------------------------------------------------------------------
(* One selector alone, over more feature names and longer feature lists.   *)

InitLeaf ==
    /\ \E leaf \in LeafObjects(WideNames) : sel = [s \in {1} |-> leaf]
    /\ last = Idle

\* fit() reads only the feature names of its iterator
LeafIterators == {d \in Datasets(WideNames, MaxData) : d.force = {}}
LeafDatasets == Datasets(WideNames, MaxData)

CallsLeaf ==
    \/ last = Idle /\ \E d \in LeafIterators : \E ord \in FitOrders(1) : Fit(1, d, ord)
    \/ last = Idle /\ \E d \in LeafDatasets : Select(1, d)
    \/ last = Idle /\ ReadIsFitted(1)
    \/ last = Idle /\ ReadSelectedFeatures(1)
    \/ last = Idle /\ ReadInFeatures(1)
    \/ last = Idle /\ ReadDroppedFeatures(1)

NextLeaf == CallsLeaf \/ Continue

SpecLeaf == InitLeaf /\ [][NextLeaf]_vars

----------------------------------------------------------------------------
(* One selector that is configured with a features pipeline, a model, an   *)
(* importance estimator or fit_on_holdout: the abstract SelectionPipeline  *)
(* itself, whose perform_selection raises, or a user-defined selector.     *)

\* a model that is not fitted, and a model fitted beforehand on features;
\* tuned counts the calls of tune_and_fit_predict on the model
MLAlgo == [is_fitted |-> FALSE, features |-> <<>>, tuned |-> 0]
FittedMLAlgo(fitted_on) == [is_fitted |-> TRUE, features |-> fitted_on, tuned |-> 0]

\* an importance estimator that is not fitted
ImportanceEstimator == [raw_importances |-> None]

ModelIterators == {d \in Datasets(Names, MaxLen) : d.force = {}}

\* the feature lists a model can have been fitted on beforehand
ModelFeatures ==
    {d.features : d \in ModelIterators}
        \cup {features(apply_feature_pipeline(TrainValidIterator(d), "p")) :
                  d \in ModelIterators}

ConfiguredObjects ==
    {SelectionPipeline(kind, features_pipeline, ml_algo, imp_estimator, fit_on_holdout) :
        kind \in {"SelectionPipeline", "UserSelector"},
        features_pipeline \in {None, Some("p")},
        ml_algo \in {None, Some(MLAlgo)} \cup {Some(FittedMLAlgo(f)) : f \in ModelFeatures},
        imp_estimator \in {None, Some(ImportanceEstimator)},
        fit_on_holdout \in BOOLEAN}

InitModel ==
    /\ \E configured \in ConfiguredObjects : sel = [s \in {1} |-> configured]
    /\ last = Idle

\* the features a user-defined perform_selection can decide to keep
Keeps == {f \in ModelFeatures : Len(f) <= 1} \cup {<<"a", derived("p", "a")>>}

ModelDatasets == Datasets(Names, MaxLen)

CallsModel ==
    \/ last = Idle /\ \E d \in ModelIterators : \E keep \in Keeps : Fit(1, d, keep)
    \/ last = Idle /\ \E d \in ModelDatasets : Select(1, d)
    \/ last = Idle /\ ReadIsFitted(1)
    \/ last = Idle /\ ReadSelectedFeatures(1)
    \/ last = Idle /\ ReadInFeatures(1)

NextModel == CallsModel \/ Continue

SpecModel == InitModel /\ [][NextModel]_vars

----------------------------------------------------------------------------
(* One fitted-or-not EmptySelector and the importances mapped to its input *)
(* features.                                                               *)

InitScores ==
    /\ sel = [s \in {1} |-> EmptySelector]
    /\ last = Idle

\* the names of the output features and the scores of the raw importances
RawNames == {"a", "b", derived("p", "a"), derived("q", "a")}
Scores == {1, 3}

\* series.index as a set: the names of the entries of a Series
index(series) == {series[i][1] : i \in DOMAIN series}

\* Series of raw importances of up to n entries: an index of different names,
\* a score for each
RECURSIVE Series(_)
Series(n) ==
    IF n = 0 THEN {<<>>}
    ELSE LET shorter == Series(n - 1)
         IN  shorter \cup
             UNION {{Append(series, <<x, v>>) :
                        x \in RawNames \ index(series),
                        v \in Scores} : series \in shorter}

AllSeries == Series(MaxRaw)

CallsScores ==
    \/ last = Idle /\ \E d \in ModelIterators : Fit(1, d, <<>>)
    \/ last = Idle /\ \E raw \in AllSeries : MapRawFeatureImportances(1, raw)
    \/ last = Idle /\ GetFeaturesScore(1)
    \/ last = Idle /\ ReadInFeatures(1)

NextScores == CallsScores \/ Continue

SpecScores == InitScores /\ [][NextScores]_vars

----------------------------------------------------------------------------
(* Properties.                                                             *)

\* the selector the latest call was made on
Receiver == sel[last.self]

\* the place of x in the list xs
Pos(xs, x) == CHOOSE i \in DOMAIN xs : xs[i] = x

\* C1: whenever select(dataset) returns, the returned dataset's features are
\* selected_features in their order, followed by the dataset's features that
\* are not selected and have force_input, in the dataset's order.
C1_SelectAddsForced ==
    (last.op = "select" /\ last.ok) =>
        LET selected == Get(Receiver._selected_features)
            forced == SelectSeq(last.arg.features,
                                LAMBDA x : x \in last.arg.force /\ x \notin Range(selected))
        IN  last.ret = Some(selected \o forced)

\* C2: a fit() call that returns on a selector that was fitted before the
\* call leaves selected_features and in_features as they were.
C2_FitIdempotent ==
    [][(last'.op = "fit" /\ last'.ok /\ is_fitted(sel[last'.self])) =>
          /\ sel'[last'.self]._selected_features = sel[last'.self]._selected_features
          /\ sel'[last'.self]._in_features = sel[last'.self]._in_features]_vars

\* a fitted ComposedSelector over two selectors was fitted again on an
\* iterator with another feature list, and the call returned
C2_Witness ==
    /\ last.op = "fit" /\ last.ok /\ last.was_fitted
    /\ Receiver.kind = "ComposedSelector" /\ Len(Receiver.selectors) = 2
    /\ last.arg.features # Get(Receiver._in_features)

\* C3: no step takes a fitted selector back to unfitted, and only a fit()
\* call takes a selector from unfitted to fitted.
C3_LifecycleOneWay ==
    [][\A s \in DOMAIN sel :
          /\ is_fitted(sel[s]) => is_fitted(sel'[s])
          /\ (~is_fitted(sel[s]) /\ is_fitted(sel'[s])) => last'.op = "fit"]_vars

\* a fit() call on a fitted selector raised, and the selector is still fitted
C3_Witness ==
    last.op = "fit" /\ ~last.ok /\ last.was_fitted /\ is_fitted(Receiver)

\* C4: on a selector that is not fitted, reading selected_features, reading
\* in_features and calling select() all fail.
C4_UnfittedAccessFails ==
    (last.op \in {"selected_features", "in_features", "select"} /\ ~is_fitted(Receiver))
        => ~last.ok

\* C5: the selected features of a fitted selector are among its in_features.
C5_SelectedWithinIn ==
    \A s \in DOMAIN sel :
        is_fitted(sel[s]) =>
            /\ ~IsNone(sel[s]._in_features)
            /\ Range(Get(sel[s]._selected_features)) \subseteq Range(Get(sel[s]._in_features))

\* a fitted ComposedSelector over two selectors, the second of which was
\* fitted on another iterator than the one the first narrowed, and which
\* drops a feature
C5_Witness ==
    \E s \in DOMAIN sel :
        /\ sel[s].kind = "ComposedSelector" /\ Len(sel[s].selectors) = 2
        /\ is_fitted(sel[s])
        /\ sel[2]._in_features # sel[1]._selected_features
        /\ Range(Get(sel[s]._selected_features)) # Range(Get(sel[s]._in_features))

\* C6: on a fitted selector dropped_features is the list of the in_features
\* that are not selected, in the order of in_features: it shares no element
\* with selected_features, and when the selection is within in_features every
\* in_features element is in exactly one of the two.
C6_DroppedFeatures ==
    (last.op = "dropped_features" /\ is_fitted(Receiver)) =>
        /\ last.ok
        /\ LET dropped == Get(last.ret)
               inF == Get(Receiver._in_features)
               selected == Get(Receiver._selected_features)
           IN  /\ Range(dropped) = Range(inF) \ Range(selected)
               /\ Len(dropped) = Cardinality(Range(dropped))
               /\ \A i, j \in DOMAIN dropped :
                      i < j => Pos(inF, dropped[i]) < Pos(inF, dropped[j])
               /\ Range(dropped) \cap Range(selected) = {}
               /\ Range(selected) \subseteq Range(inF) =>
                      \A x \in Range(inF) : (x \in Range(dropped)) # (x \in Range(selected))

\* dropped_features was read where two features are dropped and one is kept
C6_Witness ==
    /\ last.op = "dropped_features" /\ last.ok
    /\ Len(Get(last.ret)) = 2
    /\ Get(Receiver._selected_features) # <<>>

\* C7: fit(iter) on an unfitted PredefinedSelector returns if and only if
\* every requested column is a feature of the iterator; then the selected
\* features are, as a set, the requested columns; otherwise it raises and the
\* selector stays unfitted.
C7_PredefinedFit ==
    (last.op = "fit" /\ Receiver.kind = "PredefinedSelector" /\ ~last.was_fitted) =>
        /\ last.ok <=> (Receiver.columns_to_select \subseteq Range(last.arg.features))
        /\ last.ok => /\ is_fitted(Receiver)
                      /\ Range(Get(Receiver._selected_features)) = Receiver.columns_to_select
        /\ ~last.ok => ~is_fitted(Receiver)

\* the fit of PredefinedSelector({a, d}) on an iterator over [a, b, c] raised
C7_Witness ==
    /\ last.op = "fit" /\ ~last.ok
    /\ Receiver.kind = "PredefinedSelector"
    /\ Receiver.columns_to_select = {"a", "d"}
    /\ last.arg.features = <<"a", "b", "c">>

\* C8: a fitted ComposedSelector has the in_features of its first selector
\* and the selected_features of its last selector, and its
\* get_features_score() returns the mapped importances of its last selector.
C8_ComposedFirstAndLast ==
    /\ \A s \in DOMAIN sel :
           (sel[s].kind = "ComposedSelector" /\ is_fitted(sel[s])) =>
               LET selectors == sel[s].selectors
               IN  /\ selectors # <<>>
                   /\ sel[s]._in_features = sel[selectors[1]]._in_features
                   /\ sel[s]._selected_features =
                          sel[selectors[Len(selectors)]]._selected_features
    /\ (last.op = "get_features_score" /\ Receiver.kind = "ComposedSelector"
            /\ is_fitted(Receiver)) =>
           /\ last.ok
           /\ last.ret_score =
                  sel[Receiver.selectors[Len(Receiver.selectors)]].mapped_importances

\* get_features_score() was called on a fitted ComposedSelector over two
\* selectors with different in_features, of which only the first one has
\* mapped importances
C8_Witness ==
    /\ last.op = "get_features_score" /\ last.ok
    /\ Receiver.kind = "ComposedSelector" /\ Len(Receiver.selectors) = 2
    /\ is_fitted(Receiver)
    /\ sel[1]._in_features # sel[2]._in_features
    /\ ~IsNone(sel[1].mapped_importances)
    /\ IsNone(sel[2].mapped_importances)

\* C9: fit() on a ComposedSelector without selectors raises, and the
\* selector is left unfitted with no in_features.
C9_EmptyComposedFitRaises ==
    (last.op = "fit" /\ Receiver.kind = "ComposedSelector" /\ Receiver.selectors = <<>>) =>
        /\ ~last.ok
        /\ ~is_fitted(Receiver)
        /\ IsNone(Receiver._in_features)

\* fit() was called on a ComposedSelector without selectors
C9_Witness ==
    /\ last.op = "fit" /\ Receiver.kind = "ComposedSelector" /\ Receiver.selectors = <<>>
    /\ last.arg.features # <<>>

\* C10 as stated: select(dataset) on a fitted EmptySelector returns, for every
\* dataset, a dataset with the feature list of the input dataset.
C10_IdentityOnEveryDataset ==
    (last.op = "select" /\ Receiver.kind = "EmptySelector" /\ last.was_fitted) =>
        last.ok /\ last.ret = Some(last.arg.features)

\* C10: fit(iter) on an unfitted EmptySelector returns with in_features and
\* selected_features equal to the iterator's feature list, and select(dataset)
\* on a dataset with that feature list returns a dataset with the same
\* feature list, in the same order.
C10_IdentityOnIteratorFeatures ==
    /\ (last.op = "fit" /\ Receiver.kind = "EmptySelector" /\ ~last.was_fitted) =>
           /\ last.ok
           /\ Receiver._in_features = Some(last.arg.features)
           /\ Receiver._selected_features = Some(last.arg.features)
    /\ (last.op = "select" /\ Receiver.kind = "EmptySelector" /\ last.was_fitted
            /\ Receiver._in_features = Some(last.arg.features)) =>
           last.ok /\ last.ret = Some(last.arg.features)

\* select() was called on a fitted EmptySelector with a dataset that has the
\* three features of the iterator, one of them with force_input
C10_Witness ==
    /\ last.op = "select" /\ Receiver.kind = "EmptySelector" /\ last.was_fitted
    /\ Receiver._in_features = Some(last.arg.features)
    /\ Len(last.arg.features) = 3
    /\ last.arg.force # {}

\* the operations of the calls a fit made
Ops(log) == {log[i][1] : i \in DOMAIN log}

\* the iterator fit(d) hands to the model of selector self: the iterator over
\* d after the features pipeline of self
Transformed(self, d) ==
    IF IsNone(self.features_pipeline) THEN TrainValidIterator(d)
    ELSE apply_feature_pipeline(TrainValidIterator(d), Get(self.features_pipeline))

\* C11: a fit() of an unfitted selector whose model is already fitted on a
\* feature list that is not, as a sequence, the feature list of the iterator
\* after the features pipeline, raises; it does not tune the model, does not
\* fit the importance estimator, does not call perform_selection, leaves the
\* model and the estimator as they were and leaves the selector unfitted.
C11_FittedModelMismatch ==
    [][LET before == sel[last'.self]
           after_fit == sel'[last'.self]
       IN  (/\ last'.op = "fit" /\ ~is_fitted(before)
            /\ ~IsNone(before.ml_algo) /\ Get(before.ml_algo).is_fitted
            /\ Get(before.ml_algo).features # features(Transformed(before, last'.arg)))
           => /\ ~last'.ok
              /\ Ops(last'.log) \cap {"tune_and_fit_predict", "imp_estimator.fit",
                                      "perform_selection"} = {}
              /\ after_fit.ml_algo = before.ml_algo
              /\ after_fit.imp_estimator = before.imp_estimator
              /\ ~is_fitted(after_fit)]_vars

\* fit() has raised on a user-defined selector with a features pipeline and an
\* importance estimator, whose model was fitted beforehand on the features of
\* the transformed iterator in another order
C11_Witness ==
    /\ last.op = "fit" /\ ~last.ok /\ Receiver.kind = "UserSelector"
    /\ ~IsNone(Receiver.features_pipeline) /\ ~IsNone(Receiver.imp_estimator)
    /\ ~IsNone(Receiver.ml_algo) /\ Get(Receiver.ml_algo).is_fitted
    /\ Len(last.arg.features) = 2
    /\ Get(Receiver.ml_algo).features # features(Transformed(Receiver, last.arg))
    /\ Range(Get(Receiver.ml_algo).features)
           = Range(features(Transformed(Receiver, last.arg)))

\* C12: select(dataset) leaves the selector and the dataset as they were:
\* _selected_features, _in_features and mapped_importances (the whole
\* selector) are unchanged, the dataset has the features and the roles it
\* had, and select() called again on the same dataset returns or raises alike,
\* with the same feature list.
C12_SelectNoSideEffect ==
    [][last'.op = "select" =>
           /\ sel' = sel
           /\ last'.arg_after = last'.arg
           /\ LET again == select(sel', last'.self, last'.arg_after)
              IN  /\ again.ok = last'.ok
                  /\ again.ok => Some(again.data.features) = last'.ret
                  /\ again.heap = sel]_vars

\* select() has returned for a dataset with a force_input feature that is not
\* in the selection
C12_Witness ==
    /\ last.op = "select" /\ last.ok
    /\ last.arg.force \ Range(Get(Receiver._selected_features)) # {}
    /\ Get(Receiver._selected_features) # <<>>

\* the sum of the scores of the entries of a Series at the places I
RECURSIVE SumOver(_, _)
SumOver(I, series) ==
    IF I = {} THEN 0
    ELSE LET i == CHOOSE i \in I : TRUE
         IN  series[i][2] + SumOver(I \ {i}, series)

\* C13: when map_raw_feature_importances(raw) returns, mapped_importances has
\* one entry for each input feature that some output feature of raw maps to,
\* the score of an input feature is the sum of the raw scores of the output
\* features that map to it, the scores add up to the total of the raw scores,
\* and the entries are in non-increasing order of score.
C13_MappedImportances ==
    (last.op = "map_raw_feature_importances" /\ last.ok) =>
        LET raw == last.raw
            from == map_pipeline_names(Get(Receiver._in_features),
                                       [i \in DOMAIN raw |-> raw[i][1]])
            mapped == Get(Receiver.mapped_importances)
        IN  /\ Cardinality(index(mapped)) = Len(mapped)
            /\ index(mapped) = {Get(from[i]) : i \in DOMAIN raw}
            /\ index(mapped) \subseteq Range(Get(Receiver._in_features))
            /\ \A k \in DOMAIN mapped :
                   mapped[k][2] =
                       SumOver({i \in DOMAIN raw : Get(from[i]) = mapped[k][1]}, raw)
            /\ SumOver(DOMAIN mapped, mapped) = SumOver(DOMAIN raw, raw)
            /\ \A j, k \in DOMAIN mapped : j < k => mapped[j][2] >= mapped[k][2]

\* map_raw_feature_importances has returned for raw scores 3 and 1 of two
\* features derived from "a" and a raw score 3 of "b": "a" has the score 4 and
\* comes first
C13_Witness ==
    /\ last.op = "map_raw_feature_importances" /\ last.ok
    /\ last.raw = << <<derived("p", "a"), 3>>, <<"b", 3>>, <<derived("q", "a"), 1>> >>
    /\ Receiver.mapped_importances = Some(<< <<"a", 4>>, <<"b", 3>> >>)

\* C14 as stated: fit() on a fitted selector of any kind returns at once: it
\* returns, it has made no call (no apply_selector, no perform_selection, no
\* call on the iterator, the model or the estimator) and the selectors are
\* as they were.
C14_FittedFitReturnsAtOnce ==
    [][(last'.op = "fit" /\ is_fitted(sel[last'.self])) =>
           last'.ok /\ last'.log = <<>> /\ sel' = sel]_vars

\* the calls of one fit() of selector s, in the order of the code
FitOrder(s) ==
    <<Step("convert_to_holdout_iterator", s), Step("apply_feature_pipeline", s),
      Step("tune_and_fit_predict", s), Step("imp_estimator.fit", s),
      Step("perform_selection", s)>>

\* C15: a fit() of an unfitted selector makes its calls in the order holdout
\* conversion, features pipeline, tune-and-fit of the model, fit of the
\* importance estimator, perform_selection, each at most once; the holdout
\* conversion only with fit_on_holdout, the features pipeline only if one is
\* configured, the tune-and-fit only for a configured model that is not
\* fitted, the estimator's fit only if one is configured; a fit that returns
\* has called perform_selection; and the model of a selector is never tuned
\* more than once.
C15_FitStepsInOrder ==
    [][LET s == last'.self
           before == sel[s]
           log == last'.log
       IN  (last'.op = "fit" /\ ~is_fitted(before)) =>
               /\ log = SelectSeq(FitOrder(s), LAMBDA step : step \in Range(log))
               /\ Step("convert_to_holdout_iterator", s) \in Range(log)
                      <=> before._fit_on_holdout
               /\ Step("apply_feature_pipeline", s) \in Range(log)
                      <=> ~IsNone(before.features_pipeline)
               /\ Step("tune_and_fit_predict", s) \in Range(log)
                      <=> (~IsNone(before.ml_algo) /\ ~Get(before.ml_algo).is_fitted)
               /\ Step("imp_estimator.fit", s) \in Range(log)
                      => ~IsNone(before.imp_estimator)
               /\ last'.ok => Step("perform_selection", s) \in Range(log)
               /\ ~IsNone(sel'[s].ml_algo) => Get(sel'[s].ml_algo).tuned <= 1]_vars

\* fit() has returned on a user-defined selector with fit_on_holdout, a
\* features pipeline, a model that was not fitted and an importance
\* estimator: it has made its five calls
C15_Witness ==
    /\ last.op = "fit" /\ last.ok /\ ~last.was_fitted
    /\ Receiver.kind = "UserSelector"
    /\ Len(last.log) = 5
    /\ Get(Receiver.ml_algo).tuned = 1
    /\ ~IsNone(Get(Receiver.imp_estimator).raw_importances)

\* C16: when fit() of an unfitted selector that is not composed returns,
\* in_features is the feature list of the iterator (after the holdout
\* conversion if fit_on_holdout) as it was before the features pipeline, in
\* its order, and no feature the pipeline derives is in it.
C16_InFeaturesBeforePipeline ==
    (last.op = "fit" /\ last.ok /\ ~last.was_fitted /\ Receiver.kind # "ComposedSelector") =>
        LET given == TrainValidIterator(last.arg)
            seen == IF Receiver._fit_on_holdout
                    THEN convert_to_holdout_iterator(given) ELSE given
        IN  /\ in_features(Receiver).ok
            /\ in_features(Receiver).ret = Some(features(seen))
            /\ ~IsNone(Receiver.features_pipeline) =>
                   Range(Get(Receiver._in_features))
                       \cap Range(features(Transformed(Receiver, last.arg))) = {}

\* fit() has returned on a user-defined selector with fit_on_holdout and a
\* features pipeline, for an iterator with two features, and has selected a
\* feature the pipeline derived
C16_Witness ==
    /\ last.op = "fit" /\ last.ok /\ ~last.was_fitted
    /\ Receiver.kind = "UserSelector" /\ Receiver._fit_on_holdout
    /\ ~IsNone(Receiver.features_pipeline)
    /\ Len(last.arg.features) = 2
    /\ Get(Receiver._selected_features) = <<derived("p", "a")>>

\* C17: ComposedSelector.fit calls apply_selector on its children in the
\* order of self.selectors; a child that was fitted is left as it was and its
\* perform_selection is not called; children that were not fitted are fitted
\* in the order of the sequence; and when all the children were unfitted and
\* the fit returns, the first child's in_features are the features of the
\* iterator and every later child's in_features are the selected_features of
\* the child before it.
C17_ChildrenInSequence ==
    [][LET s == last'.self
           selectors == sel[s].selectors
           log == last'.log
           applied == SelectSeq(log, LAMBDA step : step[1] = "apply_selector")
           fitted == SelectSeq(log, LAMBDA step : step[1] = "perform_selection"
                                                  /\ step[2] # s)
       IN  (last'.op = "fit" /\ sel[s].kind = "ComposedSelector") =>
               /\ Len(applied) <= Len(selectors)
               /\ \A k \in DOMAIN applied : applied[k] = Step("apply_selector", selectors[k])
               /\ last'.ok => Len(applied) = Len(selectors)
               /\ \A k \in DOMAIN selectors :
                      is_fitted(sel[selectors[k]]) =>
                          /\ sel'[selectors[k]] = sel[selectors[k]]
                          /\ Step("perform_selection", selectors[k]) \notin Range(log)
               /\ fitted = SelectSeq([k \in DOMAIN selectors |->
                                         Step("perform_selection", selectors[k])],
                                     LAMBDA step : step \in Range(fitted))
               /\ (last'.ok /\ \A k \in DOMAIN selectors : ~is_fitted(sel[selectors[k]])) =>
                      \A k \in DOMAIN selectors :
                          /\ is_fitted(sel'[selectors[k]])
                          /\ sel'[selectors[k]]._in_features =
                                 IF k = 1 THEN Some(last'.arg.features)
                                 ELSE sel'[selectors[k - 1]]._selected_features]_vars

\* fit() has returned on a ComposedSelector over two children that were not
\* fitted, for an iterator with a force_input feature that the first child
\* does not select
C17_Witness ==
    /\ last.op = "fit" /\ last.ok /\ Receiver.kind = "ComposedSelector"
    /\ Len(Receiver.selectors) = 2
    /\ {Step("perform_selection", 1), Step("perform_selection", 2)} \subseteq Range(last.log)
    /\ sel[1]._selected_features # sel[1]._in_features
    /\ last.arg.force \ Range(Get(sel[1]._selected_features)) # {}

\* C18: the children of a fitted ComposedSelector are all fitted; and when
\* ComposedSelector.fit raises because the fit of its child number k raised,
\* the composed selector is not fitted and has no _in_features, the children
\* after k are as they were and the children before k are fitted.
C18_ComposedFittedChildren ==
    [][/\ \A s \in DOMAIN sel' :
              (sel'[s].kind = "ComposedSelector" /\ is_fitted(sel'[s])) =>
                  \A k \in DOMAIN sel'[s].selectors : is_fitted(sel'[sel'[s].selectors[k]])
       /\ LET s == last'.self
              selectors == sel[s].selectors
              k == Len(SelectSeq(last'.log, LAMBDA step : step[1] = "apply_selector"))
          IN  (/\ last'.op = "fit" /\ sel[s].kind = "ComposedSelector" /\ ~last'.ok
               /\ k >= 1 /\ ~is_fitted(sel'[selectors[k]]))
              => /\ ~is_fitted(sel'[s])
                 /\ IsNone(sel'[s]._in_features)
                 /\ \A j \in DOMAIN selectors :
                        /\ j > k => sel'[selectors[j]] = sel[selectors[j]]
                        /\ j < k => is_fitted(sel'[selectors[j]])]_vars

\* fit() has raised on a ComposedSelector over two children: the first child
\* was fitted by this call, the fit of the second child raised
C18_Witness ==
    /\ last.op = "fit" /\ ~last.ok /\ Receiver.kind = "ComposedSelector"
    /\ Len(Receiver.selectors) = 2
    /\ Step("perform_selection", 1) \in Range(last.log)
    /\ Step("perform_selection", 2) \in Range(last.log)
    /\ is_fitted(sel[1]) /\ ~is_fitted(sel[2])

\* the selectors with selector s, and the selectors it is composed of, as
\* they are after construction
Fresh(h, s) ==
    [c \in DOMAIN h |->
        IF c = s \/ c \in Range(h[s].selectors)
        THEN [h[c] EXCEPT !._selected_features = None, !._in_features = None]
        ELSE h[c]]

\* after a fit() of selector s that raised: a further fit() succeeds for
\* every iterator on which a selector constructed anew succeeds, and leaves
\* the in_features and selected_features that selector would have
Retried(s) ==
    \A d \in AllDatasets : \A ord \in FitOrders(s) :
        LET anew == fit(Fresh(sel, s), s, TrainValidIterator(d), ord)
            retry == fit(sel, s, TrainValidIterator(d), ord)
        IN  anew.ok =>
                /\ retry.ok
                /\ retry.heap[s]._in_features = anew.heap[s]._in_features
                /\ retry.heap[s]._selected_features = anew.heap[s]._selected_features

\* C19 as stated: after a fit() of an unfitted selector of any kind has
\* raised, a later fit() with an iterator that meets the selector's
\* precondition returns, and in_features and selected_features come from that
\* iterator alone.
C19_AnyFailedFitRetried ==
    (last.op = "fit" /\ ~last.ok /\ ~last.was_fitted) => Retried(last.self)

\* C19: after a fit() of an unfitted selector that is not a ComposedSelector
\* has raised, a later fit() with an iterator that meets the selector's
\* precondition returns, and in_features and selected_features come from that
\* iterator alone.
C19_FailedFitRetried ==
    (last.op = "fit" /\ ~last.ok /\ ~last.was_fitted /\ Receiver.kind # "ComposedSelector")
        => Retried(last.self)

\* fit() has raised on a PredefinedSelector whose columns are not all in the
\* iterator, leaving the iterator's features in _in_features, and a fit() on
\* an iterator with two features would return
C19_Witness ==
    /\ last.op = "fit" /\ ~last.ok /\ Receiver.kind = "PredefinedSelector"
    /\ Receiver._in_features = Some(last.arg.features)
    /\ last.arg.features # <<>>
    /\ \E d \in AllDatasets : \E ord \in FitOrders(last.self) :
           /\ Len(d.features) = 2
           /\ fit(sel, last.self, TrainValidIterator(d), ord).ok

====
